---- MODULE Spec2Model ----
(***************************************************************************)
(* Model of the deterministic scoring and evaluation engine of             *)
(* server/scoring_engine.py: calculate_score, generate_evaluation and      *)
(* generate_optimization_plan, driven in the order analyze_resume          *)
(* (server/ai_engine.py) calls them.                                       *)
(*                                                                         *)
(* Numbers.  The code computes with floats; the model computes with exact  *)
(* rationals.  Earned points are kept in hundredths of a point (credit is  *)
(* a percentage), a raw score is a pair <<num, den>> standing for num/den  *)
(* with den > 0, and an experience ratio is a pair <<candidate, required>>.*)
(* round() is Python's round-half-to-even.                                 *)
(*                                                                         *)
(* Dicts.  A requirement is a record whose keys may be absent, as in the   *)
(* dicts the extraction step returns; Get models dict.get(key, default).   *)
(* Python's None is the value None below.                                  *)
(***************************************************************************)
EXTENDS Integers, Sequences, FiniteSets, TLC

VARIABLES
    requirements,            \* ai_extraction["requirements"]
    required_years,          \* experience["required_years"]
    candidate_years,         \* experience["candidate_years"]
    is_senior_role,          \* derived from the job text by analyze_resume
    seniority_signals_found, \* len(experience["seniority_signals"])
    resume_text,             \* the resume handed to the engine ("" = absent)
    gaps,                    \* ai_extraction["gaps"]
    pc,                      \* position in the pipeline of analyze_resume
    scoring_result,          \* ScoringResult returned by calculate_score
    optimization_plan,       \* list returned by generate_optimization_plan
    evaluation,              \* EvaluationResult returned by generate_evaluation
    result,                  \* dict built by transform_to_legacy_format, then returned
    exception,               \* exception raised by the step that failed, or None
    _extraction_cache,       \* the module-level dict of ai_engine.py, in insertion order
    calls                    \* the analyze_resume calls in progress, up to STEP 1

vars == <<requirements, required_years, candidate_years, is_senior_role,
          seniority_signals_found, resume_text, gaps, pc, scoring_result,
          optimization_plan, evaluation, result, exception, _extraction_cache, calls>>

pipeline_vars == <<requirements, required_years, candidate_years, is_senior_role,
                   seniority_signals_found, resume_text, gaps, pc, scoring_result,
                   optimization_plan, evaluation, result, exception>>

cache_vars == <<_extraction_cache, calls>>

inputs == <<requirements, required_years, candidate_years, is_senior_role,
            seniority_signals_found, resume_text, gaps>>

-----------------------------------------------------------------------------
(* Bounds of the explored input space *)

MaxReqs == 2
MaxShapeReqs == 2
MaxCritical == 4
MaxPreferred == 2
MaxYears == 2
MaxSignals == 2
MaxPlanCritical == 2
MaxMissingPreferred == 4
MaxMissingBonus == 1
MaxAskedYears == 2
MaxCareerYears == 30
MaxSweepYears == 4
MaxCalls == 4
MaxPairs == 3
MaxExtractions == 2

\* the cache is pruned when it holds more than CacheThreshold entries, by
\* EvictCount entries; the program's numbers are 100 and 50
CacheThreshold == 1
EvictCount == 1

-----------------------------------------------------------------------------
(* Python values *)

None == "<None>"

Get(d, key, default) == IF key \in DOMAIN d THEN d[key] ELSE default

Min(a, b) == IF a <= b THEN a ELSE b

Max(a, b) == IF a >= b THEN a ELSE b

RECURSIVE SumSeq(_)
SumSeq(s) == IF s = <<>> THEN 0 ELSE Head(s) + SumSeq(Tail(s))

MapSeq(s, F(_)) == [i \in 1..Len(s) |-> F(s[i])]

CountSeq(s, P(_)) == Len(SelectSeq(s, P))

\* round(num/den) for den > 0: round half to even, as Python 3's round()
RoundHalfEven(num, den) ==
    LET q == num \div den
        r == num % den
    IN  IF 2 * r < den THEN q
        ELSE IF 2 * r > den THEN q + 1
        ELSE IF q % 2 = 0 THEN q ELSE q + 1

-----------------------------------------------------------------------------
(* CONFIG *)

\* CONFIG["tier_points"].get(tier, 8)
tier_points(tier) ==
    CASE tier = 1 -> 15
      [] tier = 2 -> 8
      [] tier = 3 -> 4
      [] OTHER -> 8

\* CONFIG["match_credit"].get(match_type, 0.0), as a percentage
match_credit(match_type) ==
    CASE match_type = "EXACT" -> 100
      [] match_type = "VARIANT" -> 90
      [] match_type = "CONTEXTUAL" -> 75
      [] match_type = "NONE" -> 0
      [] OTHER -> 0

\* CONFIG["hard_caps"]
hard_caps ==
    [missing_1_tier1 |-> 75,
     missing_2_tier1 |-> 60,
     missing_3_tier1 |-> 45,
     experience_below_50pct |-> 55,
     zero_tier1_matches |-> 30,
     no_quantified_achievements |-> 80]

\* CONFIG["experience_penalties"]
experience_penalties ==
    [below_50pct |-> -15,
     below_75pct |-> -8,
     meets_requirement |-> 0,
     exceeds_by_50pct |-> 3]

seniority_bonus == 5

seniority_penalty == -10

\* CONFIG["score_bands"]
score_bands ==
    [strong_match |-> 85,
     good_match |-> 70,
     borderline |-> 55,
     below_threshold |-> 40]

-----------------------------------------------------------------------------
(* calculate_score, step 1: points per tier *)

\* tier = req.get("tier", 2); if tier not in [1, 2, 3]: tier = 2
ReqTier(req) ==
    LET tier == Get(req, "tier", 2)
    IN  IF tier \in {1, 2, 3} THEN tier ELSE 2

\* match_type = req.get("match_type", "NONE")
ReqMatchType(req) == Get(req, "match_type", "NONE")

\* points_earned = points_possible * credit, in hundredths of a point
points_earned(req) == tier_points(ReqTier(req)) * match_credit(ReqMatchType(req))

\* the entry appended to tier_scores[tier]["details"]; points_earned is
\* round(points_earned, 1) in tenths
MatchDetail(req) ==
    [skill |-> Get(req, "text", ""),
     match_type |-> ReqMatchType(req),
     evidence |-> Get(req, "evidence", None),
     points_earned |-> RoundHalfEven(points_earned(req), 10),
     points_possible |-> tier_points(ReqTier(req)),
     credit_pct |-> match_credit(ReqMatchType(req))]

\* variant of CountsAsMatched: a requirement counts as matched when it earns credit
CountsAsMatched_ByCredit(req) == match_credit(ReqMatchType(req)) > 0

\* if match_type != "NONE": tier_scores[tier]["matched"] += 1
CountsAsMatched(req) == ReqMatchType(req) # "NONE"

\* tier_scores after the loop over the requirements
TierScores(reqs) ==
    [tier \in {1, 2, 3} |->
        LET rs == SelectSeq(reqs, LAMBDA r : ReqTier(r) = tier)
        IN  [earned |-> SumSeq(MapSeq(rs, points_earned)),
             possible |-> SumSeq(MapSeq(rs, LAMBDA r : tier_points(ReqTier(r)))),
             matched |-> CountSeq(rs, CountsAsMatched),
             total |-> Len(rs),
             details |-> MapSeq(rs, MatchDetail)]]

\* variant of IsMissingCritical: the test on match_type is inverted
IsMissingCritical_Inverted(req) == ReqTier(req) = 1 /\ ReqMatchType(req) # "NONE"

\* if tier == 1: if match_type == "NONE": missing_critical.append(text)
IsMissingCritical(req) == ReqTier(req) = 1 /\ ReqMatchType(req) = "NONE"

\* if tier == 1: ... elif CONTEXTUAL / else: matched_critical.append(text)
IsMatchedCritical(req) == ReqTier(req) = 1 /\ ReqMatchType(req) # "NONE"

\* variant of IsWeakMatch: a CONTEXTUAL match of any tier is flagged
IsWeakMatch_AnyTier(req) == ReqMatchType(req) = "CONTEXTUAL"

\* CONTEXTUAL in tier 1, or (elif) in tier 2: weak_matches.append(text)
IsWeakMatch(req) == ReqTier(req) \in {1, 2} /\ ReqMatchType(req) = "CONTEXTUAL"

Texts(reqs) == MapSeq(reqs, LAMBDA r : Get(r, "text", ""))

-----------------------------------------------------------------------------
(* calculate_score, step 2: experience adjustment *)

\* experience_ratio = candidate_years / required_years if required_years > 0 else 1.0
ExperienceRatio(required, candidate) ==
    IF required > 0 THEN <<candidate, required>> ELSE <<1, 1>>

RatioBelow50(ratio) == 2 * ratio[1] < ratio[2]

RatioBelow75(ratio) == 4 * ratio[1] < 3 * ratio[2]

RatioAtLeast150(ratio) == 2 * ratio[1] >= 3 * ratio[2]

RatioAdjustment(ratio) ==
    IF RatioBelow50(ratio) THEN experience_penalties.below_50pct
    ELSE IF RatioBelow75(ratio) THEN experience_penalties.below_75pct
    ELSE IF RatioAtLeast150(ratio) THEN experience_penalties.exceeds_by_50pct
    ELSE 0

\* variant of SeniorityAdjustment: the test on is_senior_role is left out
SeniorityAdjustment_AnyRole(senior, signals) ==
    IF signals >= 2 THEN seniority_bonus
    ELSE IF signals = 0 THEN seniority_penalty
    ELSE 0

\* if is_senior_role: the bonus for two or more signals, the penalty for none
SeniorityAdjustment(senior, signals) ==
    IF senior
    THEN IF signals >= 2 THEN seniority_bonus
         ELSE IF signals = 0 THEN seniority_penalty
         ELSE 0
    ELSE 0

ExperienceAdjustment(ratio, senior, signals) ==
    RatioAdjustment(ratio) + SeniorityAdjustment(senior, signals)

-----------------------------------------------------------------------------
(* calculate_score, step 3: raw score *)

\* variant of UnclampedRaw: the adjustment is applied to a missing
\* denominator as if it were 1
UnclampedRaw_NoGuard(total_earned, total_possible, adjustment) ==
    <<total_earned + adjustment * total_possible, Max(1, total_possible)>>

\* (total_earned / total_possible) * 100 + experience_adjustment, unclamped
UnclampedRaw(total_earned, total_possible, adjustment) ==
    IF total_possible = 0
    THEN <<adjustment, 1>>
    ELSE <<total_earned + adjustment * total_possible, total_possible>>

\* variant of ClampRaw: the clamp to [0, 100] is left out
ClampRaw_Unclamped(raw) == raw

\* raw_score = max(0, min(100, raw_score))
ClampRaw(raw) == <<Max(0, Min(100 * raw[2], raw[1])), raw[2]>>

-----------------------------------------------------------------------------
(* calculate_score, step 4: hard caps *)

ZeroTier1Reason == "No critical requirements matched"

ExperienceReason == "Experience below 50% of requirement"

Missing3Reason(n) == "Missing " \o ToString(n) \o "+ critical requirements"

Missing2Reason(n) == "Missing " \o ToString(n) \o " critical requirements"

Missing1Reason(n) == "Missing " \o ToString(n) \o " critical requirement(s)"

\* no branch taken: no min() is applied and no reason is appended
NoCap == [applies |-> FALSE, ceiling |-> 0, reasons |-> <<>>]

Cap(ceiling, reason) == [applies |-> TRUE, ceiling |-> ceiling, reasons |-> reason]

\* variant of Tier1Cap: the progressive caps are tested least severe first
Tier1Cap_LeastSevereFirst(tier1_total, tier1_none_count, tier1_missing) ==
    IF tier1_total > 0 /\ tier1_none_count = tier1_total
    THEN Cap(hard_caps.zero_tier1_matches, <<ZeroTier1Reason>>)
    ELSE IF tier1_missing >= 1
    THEN Cap(hard_caps.missing_1_tier1, <<Missing1Reason(tier1_missing)>>)
    ELSE IF tier1_missing >= 2
    THEN Cap(hard_caps.missing_2_tier1, <<Missing2Reason(tier1_missing)>>)
    ELSE IF tier1_missing >= 3
    THEN Cap(hard_caps.missing_3_tier1, <<Missing3Reason(tier1_missing)>>)
    ELSE NoCap

\* the if / elif chain over the Tier-1 caps; the ceiling is the second
\* argument of the min() the chosen branch applies
Tier1Cap(tier1_total, tier1_none_count, tier1_missing) ==
    IF tier1_total > 0 /\ tier1_none_count = tier1_total
    THEN Cap(hard_caps.zero_tier1_matches, <<ZeroTier1Reason>>)
    ELSE IF tier1_missing >= 3
    THEN Cap(hard_caps.missing_3_tier1, <<Missing3Reason(tier1_missing)>>)
    ELSE IF tier1_missing >= 2
    THEN Cap(hard_caps.missing_2_tier1, <<Missing2Reason(tier1_missing)>>)
    ELSE IF tier1_missing >= 1
    THEN Cap(hard_caps.missing_1_tier1, <<Missing1Reason(tier1_missing)>>)
    ELSE NoCap

\* variant of MentionsExperience: the test always finds the word
MentionsExperience_Always(caps) == TRUE

\* "experience" in str(caps_applied).lower(): of the reasons the code can
\* produce only the experience reason contains that word
MentionsExperience(caps) == \E i \in 1..Len(caps) : caps[i] = ExperienceReason

\* variant of ExperienceCap: the experience cap is one more elif of the
\* Tier-1 chain
ExperienceCap_Elif(ratio, caps) ==
    IF RatioBelow50(ratio) /\ caps = <<>>
    THEN Cap(hard_caps.experience_below_50pct, <<ExperienceReason>>)
    ELSE NoCap

\* the experience cap, applied after the Tier-1 chain
ExperienceCap(ratio, caps) ==
    IF RatioBelow50(ratio)
    THEN Cap(hard_caps.experience_below_50pct,
             IF MentionsExperience(caps) THEN <<>> ELSE <<ExperienceReason>>)
    ELSE NoCap

\* variant of CapAt: max() written for min()
CapAt_Max(score, cap) ==
    IF cap.applies
    THEN <<Max(score[1], cap.ceiling * score[2]), score[2]>>
    ELSE score

\* final_score = min(final_score, ceiling) in the branch taken, on rationals
CapAt(score, cap) ==
    IF cap.applies
    THEN <<Min(score[1], cap.ceiling * score[2]), score[2]>>
    ELSE score

\* final_score = round(final_score)
RoundFinal(score) == RoundHalfEven(score[1], score[2])

-----------------------------------------------------------------------------
(* Resume texts of the model and what the regular expressions and word     *)
(* lists of _get_quality_details and _analyze_resume_quality find in them  *)

NoResume == ""

PlainResume == "Improved sales"

QuantifiedResume == "Increased sales by 35%, saved $2,000 for 12 clients"

\* stands for a resume of 400 words: the eight verbs "Led managed developed
\* created implemented designed built launched", the five metrics "10% 20%
\* 30% 40% 50%" and the word "work" 387 times
StrongResume == "Led managed developed created implemented designed built launched 10% 20% 30% 40% 50% work work work"

ResumeTexts == {NoResume, PlainResume, QuantifiedResume}

\* len(re.findall(r'\d+%|\$[\d,]+|\d+\s*(years?|projects?|clients?)', text_lower))
metrics_count(text) ==
    CASE text = PlainResume -> 0
      [] text = QuantifiedResume -> 3
      [] text = StrongResume -> 5

\* sum(1 for v in strong_verbs if v in text_lower), the 11-verb list
strong_verbs_count(text) ==
    CASE text = PlainResume -> 0
      [] text = QuantifiedResume -> 0
      [] text = StrongResume -> 8

\* variant of QualityDetails: the details are computed for an absent resume too
QualityDetails_AlwaysComputed(text) ==
    IF text = NoResume
    THEN [metrics_count |-> 0, strong_verbs_count |-> 0,
          has_quantified_achievements |-> FALSE]
    ELSE [metrics_count |-> metrics_count(text),
          strong_verbs_count |-> strong_verbs_count(text),
          has_quantified_achievements |-> metrics_count(text) >= 3]

\* _get_quality_details(resume_text) if resume_text else {}
QualityDetails(text) ==
    IF text = NoResume
    THEN <<>>
    ELSE [metrics_count |-> metrics_count(text),
          strong_verbs_count |-> strong_verbs_count(text),
          has_quantified_achievements |-> metrics_count(text) >= 3]

\* _analyze_resume_quality(resume_text)
_analyze_resume_quality(text) ==
    CASE text = NoResume -> 70
      [] text = PlainResume -> 40
      [] text = QuantifiedResume -> 55
      [] text = StrongResume -> 100

-----------------------------------------------------------------------------
(* calculate_score, step 5: interpretation *)

\* variant of Interpretation: the band of a strong match starts at the band
\* of a good match
Interpretation_StrongAt70(final_score) ==
    IF final_score >= score_bands.good_match THEN "STRONG MATCH"
    ELSE IF final_score >= score_bands.borderline THEN "BORDERLINE"
    ELSE IF final_score >= score_bands.below_threshold THEN "BELOW THRESHOLD"
    ELSE "POOR FIT"

Interpretation(final_score) ==
    IF final_score >= score_bands.strong_match THEN "STRONG MATCH"
    ELSE IF final_score >= score_bands.good_match THEN "GOOD MATCH"
    ELSE IF final_score >= score_bands.borderline THEN "BORDERLINE"
    ELSE IF final_score >= score_bands.below_threshold THEN "BELOW THRESHOLD"
    ELSE "POOR FIT"

\* TierBreakdown built by build_tier_breakdown; earned = round(earned, 1) in tenths
build_tier_breakdown(t) ==
    [earned |-> RoundHalfEven(t.earned, 10),
     possible |-> t.possible,
     percentage |-> IF t.possible > 0 THEN RoundHalfEven(t.earned, t.possible) ELSE 0,
     matched_count |-> t.matched,
     total_count |-> t.total,
     match_details |-> t.details]

\* [d["skill"] for t in tier_scores.values() for d in t["details"]
\*  if d["match_type"] == "NONE"]
MissingSkills(details) ==
    MapSeq(SelectSeq(details, LAMBDA d : d.match_type = "NONE"), LAMBDA d : d.skill)

\* CONFIG["seniority_levels"]: the bounds in years and the contextual bonus
seniority_levels ==
    [entry |-> [years |-> <<0, 2>>, contextual_bonus |-> 0],
     mid |-> [years |-> <<3, 5>>, contextual_bonus |-> 5],
     senior |-> [years |-> <<6, 10>>, contextual_bonus |-> 10],
     executive |-> [years |-> <<10, 99>>, contextual_bonus |-> 15]]

\* min_years <= experience_ratio * 4 <= max_years, on the exact ratio
InLevel(ratio, level) ==
    /\ seniority_levels[level].years[1] * ratio[2] <= 4 * ratio[1]
    /\ 4 * ratio[1] <= seniority_levels[level].years[2] * ratio[2]

\* the first level, in the order of the CONFIG dict, whose bounds hold the
\* estimated years; "mid" when none does
_detect_seniority_level(ratio) ==
    IF InLevel(ratio, "entry") THEN "entry"
    ELSE IF InLevel(ratio, "mid") THEN "mid"
    ELSE IF InLevel(ratio, "senior") THEN "senior"
    ELSE IF InLevel(ratio, "executive") THEN "executive"
    ELSE "mid"

\* the pairs (tier1_alignment, tier2_alignment) for which the double
\* tier1_alignment * 0.7 + tier2_alignment * 0.3 lies just below a tie
\* k + 0.5 with k even, so that round() gives k where the exact sum rounds
\* to k + 1 (computed on IEEE doubles for all pairs in 0..100)
FloatTiesBelow ==
    {<<1, 36>>, <<1, 96>>, <<2, 67>>, <<2, 87>>, <<3, 18>>, <<6, 11>>,
     <<6, 31>>, <<7, 2>>, <<7, 62>>, <<7, 82>>, <<12, 17>>, <<12, 57>>,
     <<12, 77>>, <<17, 12>>, <<23, 18>>, <<24, 9>>, <<24, 29>>, <<24, 49>>,
     <<28, 13>>, <<29, 4>>, <<29, 24>>, <<33, 8>>, <<34, 19>>, <<38, 3>>,
     <<39, 14>>, <<45, 0>>, <<46, 11>>, <<46, 31>>, <<46, 51>>, <<48, 13>>,
     <<48, 33>>, <<48, 53>>, <<48, 73>>, <<48, 93>>, <<51, 6>>, <<51, 26>>,
     <<51, 46>>, <<53, 8>>, <<53, 28>>, <<53, 48>>, <<53, 68>>, <<53, 88>>,
     <<56, 1>>, <<56, 21>>, <<56, 41>>, <<58, 3>>, <<58, 23>>, <<58, 43>>,
     <<58, 63>>, <<61, 16>>, <<61, 36>>, <<63, 18>>, <<63, 38>>, <<63, 58>>,
     <<66, 11>>, <<66, 31>>, <<66, 51>>, <<68, 13>>, <<68, 33>>, <<68, 53>>,
     <<71, 6>>, <<71, 26>>, <<71, 46>>, <<73, 8>>, <<73, 28>>, <<76, 1>>,
     <<76, 21>>, <<78, 3>>, <<78, 23>>, <<81, 16>>, <<83, 18>>, <<85, 0>>,
     <<86, 11>>, <<92, 17>>, <<92, 37>>, <<92, 57>>, <<92, 77>>, <<92, 97>>,
     <<96, 1>>, <<96, 21>>, <<96, 41>>, <<96, 61>>, <<96, 81>>, <<97, 12>>,
     <<97, 32>>, <<97, 52>>, <<97, 72>>, <<97, 92>>}

\* round(tier1_alignment * 0.7 + tier2_alignment * 0.3)
WeightedAlignment(tier1_alignment, tier2_alignment) ==
    RoundHalfEven(7 * tier1_alignment + 3 * tier2_alignment, 10)
        - (IF <<tier1_alignment, tier2_alignment>> \in FloatTiesBelow THEN 1 ELSE 0)

\* variant of ClampAlignment: the bonus is added without the min()
ClampAlignment_Unclamped(alignment_score, contextual_bonus) ==
    alignment_score + contextual_bonus \div 2

\* alignment_score = min(100, alignment_score + (contextual_bonus // 2))
ClampAlignment(alignment_score, contextual_bonus) ==
    Min(100, alignment_score + contextual_bonus \div 2)

\* round((t["earned"] / t["possible"]) * 100) if t["possible"] > 0 else 0
TierAlignment(t) == IF t.possible > 0 THEN RoundHalfEven(t.earned, t.possible) ELSE 0

\* the three dimensions built by _calculate_dimensions; the arguments
\* seniority_signals, is_senior_role and requirements are not read
_calculate_dimensions(tier_scores, experience_ratio, text) ==
    LET seniority_level == _detect_seniority_level(experience_ratio)
        contextual_bonus == seniority_levels[seniority_level].contextual_bonus
        total_matched == tier_scores[1].matched + tier_scores[2].matched + tier_scores[3].matched
        total_keywords == tier_scores[1].total + tier_scores[2].total + tier_scores[3].total
        base_quality == IF text # NoResume THEN _analyze_resume_quality(text) ELSE 70
        tier1_alignment == TierAlignment(tier_scores[1])
        tier2_alignment == TierAlignment(tier_scores[2])
    IN  [keyword_presence |->
            [score |-> IF total_keywords > 0
                       THEN RoundHalfEven(100 * total_matched, total_keywords) ELSE 0,
             details |-> [found |-> total_matched,
                          total |-> total_keywords,
                          missing |-> MissingSkills(tier_scores[1].details)
                                         \o MissingSkills(tier_scores[2].details)
                                         \o MissingSkills(tier_scores[3].details)]],
         resume_quality |->
            [score |-> Min(100, base_quality + contextual_bonus),
             details |-> [quality |-> QualityDetails(text),
                          seniority_level |-> seniority_level,
                          seniority_bonus_applied |-> contextual_bonus]],
         job_alignment |->
            [score |-> ClampAlignment(WeightedAlignment(tier1_alignment, tier2_alignment),
                                      contextual_bonus),
             details |-> [tier1_alignment |-> tier1_alignment,
                          tier2_alignment |-> tier2_alignment]]]

-----------------------------------------------------------------------------
(* calculate_score *)

\* raw_score after step 3 (before round(raw_score, 1) in the result)
RawScore(reqs, required, candidate, senior, signals) ==
    LET tier_scores == TierScores(reqs)
        total_earned == tier_scores[1].earned + tier_scores[2].earned + tier_scores[3].earned
        total_possible == tier_scores[1].possible + tier_scores[2].possible
                             + tier_scores[3].possible
        ratio == ExperienceRatio(required, candidate)
    IN  ClampRaw(UnclampedRaw(total_earned, total_possible,
                              ExperienceAdjustment(ratio, senior, signals)))

\* steps 4 and 5: the caps in the order the code applies them, and
\* final_score = round(final_score)
CappedScore(reqs, required, candidate, senior, signals) ==
    LET tier_scores == TierScores(reqs)
        tier1_missing == CountSeq(reqs, IsMissingCritical)
        tier1_none_count == CountSeq(reqs, IsMissingCritical)
        ratio == ExperienceRatio(required, candidate)
        raw_score == RawScore(reqs, required, candidate, senior, signals)
        tier1_cap == Tier1Cap(tier_scores[1].total, tier1_none_count, tier1_missing)
        experience_cap == ExperienceCap(ratio, tier1_cap.reasons)
    IN  [final_score |-> RoundFinal(CapAt(CapAt(raw_score, tier1_cap), experience_cap)),
         caps_applied |-> tier1_cap.reasons \o experience_cap.reasons]

calculate_score(reqs, required, candidate, senior, signals, text) ==
    LET tier_scores == TierScores(reqs)
        ratio == ExperienceRatio(required, candidate)
        raw_score == RawScore(reqs, required, candidate, senior, signals)
        capped == CappedScore(reqs, required, candidate, senior, signals)
        final_score == capped.final_score
    IN  [score |-> final_score,
         raw_score |-> RoundHalfEven(10 * raw_score[1], raw_score[2]),
         interpretation |-> Interpretation(final_score),
         tier1 |-> build_tier_breakdown(tier_scores[1]),
         tier2 |-> build_tier_breakdown(tier_scores[2]),
         tier3 |-> build_tier_breakdown(tier_scores[3]),
         total_earned |-> RoundHalfEven(tier_scores[1].earned + tier_scores[2].earned
                                           + tier_scores[3].earned, 10),
         total_possible |-> tier_scores[1].possible + tier_scores[2].possible
                               + tier_scores[3].possible,
         caps_applied |-> capped.caps_applied,
         experience_adjustment |-> ExperienceAdjustment(ratio, senior, signals),
         experience_ratio |-> RoundHalfEven(100 * ratio[1], ratio[2]),
         missing_critical |-> Texts(SelectSeq(reqs, IsMissingCritical)),
         matched_critical |-> Texts(SelectSeq(reqs, IsMatchedCritical)),
         weak_matches |-> Texts(SelectSeq(reqs, IsWeakMatch)),
         dimensions |-> _calculate_dimensions(tier_scores, ratio, text)]

-----------------------------------------------------------------------------
(* generate_optimization_plan *)

HasTier(req, tier) == "tier" \in DOMAIN req /\ req.tier = tier

HasMatchType(req, match_type) == "match_type" \in DOMAIN req /\ req.match_type = match_type

\* r.get("tier") == 1 and r.get("match_type") == "NONE"
missing_tier1(reqs) == SelectSeq(reqs, LAMBDA r : HasTier(r, 1) /\ HasMatchType(r, "NONE"))

contextual_tier1(reqs) ==
    SelectSeq(reqs, LAMBDA r : HasTier(r, 1) /\ HasMatchType(r, "CONTEXTUAL"))

missing_tier2(reqs) == SelectSeq(reqs, LAMBDA r : HasTier(r, 2) /\ HasMatchType(r, "NONE"))

missing_tier3(reqs) == SelectSeq(reqs, LAMBDA r : HasTier(r, 3) /\ HasMatchType(r, "NONE"))

\* skill.lower() in g.get("requirement", "").lower(): the skill names and the
\* gap requirements of the model are equally long, so containment is equality
GapMentions(gap, skill) == Get(gap, "requirement", "") = skill

\* gap = next((g for g in gaps if ...), None);
\* gap.get("suggestion") if gap else the fallback text
GapDescription(gap_list, skill, fallback) ==
    LET hits == SelectSeq(gap_list, LAMBDA g : GapMentions(g, skill))
    IN  IF hits = <<>> THEN fallback ELSE Get(Head(hits), "suggestion", None)

CriticalItem(gap_list, req) ==
    LET skill == Get(req, "text", "Unknown skill")
    IN  [type |-> "critical",
         category |-> "missing_critical_skill",
         title |-> "Add Critical Skill: " \o skill,
         description |-> GapDescription(gap_list, skill, "Add " \o skill \o " with examples")]

\* evidence = req.get("evidence", ""); evidence[:50] with evidence shorter
\* than 50 characters
HighItem(req) ==
    LET skill == Get(req, "text", "Unknown skill")
    IN  [type |-> "high",
         category |-> "strengthen_match",
         title |-> "Strengthen: " \o skill,
         description |-> "Currently inferred from " \o Get(req, "evidence", "")]

MediumItem(gap_list, req) ==
    LET skill == Get(req, "text", "Unknown skill")
    IN  [type |-> "medium",
         category |-> "missing_preferred_skill",
         title |-> "Consider Adding: " \o skill,
         description |-> GapDescription(gap_list, skill, "Add " \o skill \o " if relevant")]

QuantificationItem ==
    [type |-> "medium",
     category |-> "quantification",
     title |-> "Add Quantified Achievements",
     description |-> "Include specific metrics"]

StandOutItem ==
    [type |-> "low",
     category |-> "enhancement",
     title |-> "Stand Out from Competition",
     description |-> "Your skills match well"]

BonusSkillsItem(skills) ==
    [type |-> "low",
     category |-> "bonus_skills",
     title |-> "Optional Bonus Skills",
     description |-> skills]

PolishItem ==
    [type |-> "low",
     category |-> "polish",
     title |-> "Polish Your Resume",
     description |-> "Ensure consistent formatting"]

\* evidence[:50] raises TypeError when the evidence of a Tier-1 CONTEXTUAL
\* requirement is None
SliceRaises(req) == Get(req, "evidence", "") = None

PlanRaises(reqs) == \E i \in 1..Len(contextual_tier1(reqs)) : SliceRaises(contextual_tier1(reqs)[i])

\* variant of EnsureNeverEmpty: the fallback is left out
EnsureNeverEmpty_NoFallback(plan) == plan

\* if not plan: plan.append(polish item)
EnsureNeverEmpty(plan) == IF plan = <<>> THEN <<PolishItem>> ELSE plan

\* variant of Tier2Shown: every missing preferred requirement gets an item
Tier2Shown_All(missing) == missing

\* for req in missing_tier2[:3]
Tier2Shown(missing) == SubSeq(missing, 1, Min(3, Len(missing)))

\* the list the function returns when no step raises
generate_optimization_plan(score, gap_list, reqs, text) ==
    LET quality_details == QualityDetails(text)
        critical == MapSeq(missing_tier1(reqs), LAMBDA r : CriticalItem(gap_list, r))
        high == MapSeq(contextual_tier1(reqs), HighItem)
        medium == MapSeq(Tier2Shown(missing_tier2(reqs)), LAMBDA r : MediumItem(gap_list, r))
        quantification ==
            IF ~ Get(quality_details, "has_quantified_achievements", TRUE)
            THEN <<QuantificationItem>> ELSE <<>>
        bonus ==
            IF missing_tier3(reqs) # <<>>
            THEN <<BonusSkillsItem(Texts(SubSeq(missing_tier3(reqs), 1,
                                                Min(3, Len(missing_tier3(reqs))))))>>
            ELSE <<>>
        low == IF score >= 85 THEN <<StandOutItem>> \o bonus ELSE <<>>
    IN  EnsureNeverEmpty(critical \o high \o medium \o quantification \o low)

-----------------------------------------------------------------------------
(* generate_evaluation *)

\* tier_scores as analyze_resume rebuilds it from the ScoringResult
EvaluationTierScores(scored) ==
    [tier \in {1, 2, 3} |->
        LET b == CASE tier = 1 -> scored.tier1 [] tier = 2 -> scored.tier2 [] tier = 3 -> scored.tier3
        IN  [total |-> b.total_count, matched |-> b.matched_count, details |-> b.match_details]]

\* variant of HiringReadiness: MEDIUM admits two missing critical requirements
HiringReadiness_TwoMissing(missing_critical, experience_ratio) ==
    IF Len(missing_critical) = 0 /\ experience_ratio >= 75 THEN "HIGH"
    ELSE IF Len(missing_critical) <= 2 /\ experience_ratio >= 50 THEN "MEDIUM"
    ELSE "LOW"

\* 1. hiring readiness; experience_ratio is in hundredths
HiringReadiness(missing_critical, experience_ratio) ==
    IF Len(missing_critical) = 0 /\ experience_ratio >= 75 THEN "HIGH"
    ELSE IF Len(missing_critical) <= 1 /\ experience_ratio >= 50 THEN "MEDIUM"
    ELSE "LOW"

\* 2. ATS compatibility; match_rate = matched / total * 100 (0 when total = 0)
MatchRateAtLeast(matched, total, pct) == total > 0 /\ 100 * matched >= pct * total

AtsStatus(matched, total) ==
    IF MatchRateAtLeast(matched, total, 80) THEN "STRONG"
    ELSE IF MatchRateAtLeast(matched, total, 60) THEN "PASS"
    ELSE "RISK"

AtsDetails(matched, total, missing_critical) ==
    IF MatchRateAtLeast(matched, total, 80)
    THEN <<"Resume parses correctly", "All critical keywords present",
           "No disqualifying gaps detected", "Recruiters can find you in search results">>
    ELSE IF MatchRateAtLeast(matched, total, 60)
    THEN <<"Resume parses correctly", "Most keywords present">>
         \o (IF missing_critical # <<>>
             THEN <<"Missing " \o ToString(Len(missing_critical)) \o " critical term(s)">>
             ELSE <<>>)
    ELSE <<"Several required keywords missing",
           "Only " \o ToString(IF total > 0 THEN (100 * matched) \div total ELSE 0)
               \o "% keyword coverage">>

\* variant of SearchVisibility: HIGH starts at a match rate of 85
SearchVisibility_HighAt85(matched, total) ==
    IF MatchRateAtLeast(matched, total, 85) THEN "HIGH"
    ELSE IF MatchRateAtLeast(matched, total, 50) THEN "MEDIUM"
    ELSE "LOW"

\* 3. recruiter search visibility
SearchVisibility(matched, total) ==
    IF MatchRateAtLeast(matched, total, 75) THEN "HIGH"
    ELSE IF MatchRateAtLeast(matched, total, 50) THEN "MEDIUM"
    ELSE "LOW"

RECURSIVE AddTier2Matches(_, _)
AddTier2Matches(terms, details) ==
    IF details = <<>> THEN terms
    ELSE IF Head(details).match_type # "NONE" /\ Len(terms) < 8
    THEN AddTier2Matches(Append(terms, Head(details).skill), Tail(details))
    ELSE AddTier2Matches(terms, Tail(details))

SearchableTerms(matched_critical, tier2_details) ==
    AddTier2Matches(SubSeq(matched_critical, 1, Min(5, Len(matched_critical))), tier2_details)

\* 4. alignment strengths and refinements
AlignmentStrengths(tier1_matched, experience_ratio, text) ==
    (IF tier1_matched > 0
     THEN <<ToString(tier1_matched) \o " critical skills clearly stated">> ELSE <<>>)
    \o (IF experience_ratio >= 100 THEN <<"Experience meets or exceeds requirements">> ELSE <<>>)
    \o (IF Get(QualityDetails(text), "has_quantified_achievements", FALSE)
        THEN <<"Quantified achievements included">> ELSE <<>>)
    \o (IF Get(QualityDetails(text), "strong_verbs_count", 0) >= 5
        THEN <<"Strong action verbs present">> ELSE <<>>)

AlignmentRefinements(weak_matches) ==
    MapSeq(SubSeq(weak_matches, 1, Min(3, Len(weak_matches))),
           LAMBDA skill : [skill |-> skill, current |-> "Mentioned contextually", blocking |-> "No"])

\* variant of ReadabilityStars: the baseline of an absent resume is 50
ReadabilityStars_Baseline50(text) ==
    LET quality_score == IF text # NoResume THEN _analyze_resume_quality(text) ELSE 50
    IN  IF quality_score >= 85 THEN 5
        ELSE IF quality_score >= 70 THEN 4
        ELSE IF quality_score >= 55 THEN 3
        ELSE IF quality_score >= 40 THEN 2
        ELSE 1

\* 5. human readability
ReadabilityStars(text) ==
    LET quality_score == IF text # NoResume THEN _analyze_resume_quality(text) ELSE 70
    IN  IF quality_score >= 85 THEN 5
        ELSE IF quality_score >= 70 THEN 4
        ELSE IF quality_score >= 55 THEN 3
        ELSE IF quality_score >= 40 THEN 2
        ELSE 1

\* variant of ReadyToSubmit: the second branch admits two missing
\* critical requirements
ReadyToSubmit_TwoMissing(score, missing_critical) ==
    IF score >= 70 /\ Len(missing_critical) = 0 THEN TRUE
    ELSE IF score >= 55 /\ Len(missing_critical) <= 2 THEN TRUE
    ELSE FALSE

\* 6. final verdict
ReadyToSubmit(score, missing_critical) ==
    IF score >= 70 /\ Len(missing_critical) = 0 THEN TRUE
    ELSE IF score >= 55 /\ Len(missing_critical) <= 1 THEN TRUE
    ELSE FALSE

generate_evaluation(score, tier_scores, missing_critical, matched_critical, weak_matches, experience_ratio, text) ==
    LET total_matched == tier_scores[1].matched + tier_scores[2].matched + tier_scores[3].matched
        total_keywords == tier_scores[1].total + tier_scores[2].total + tier_scores[3].total
    IN  [hiring_readiness |-> HiringReadiness(missing_critical, experience_ratio),
         ats_status |-> AtsStatus(total_matched, total_keywords),
         ats_details |-> AtsDetails(total_matched, total_keywords, missing_critical),
         search_visibility |-> SearchVisibility(total_matched, total_keywords),
         searchable_terms |-> SearchableTerms(matched_critical, tier_scores[2].details),
         alignment_score |-> score,
         alignment_strengths |-> AlignmentStrengths(tier_scores[1].matched, experience_ratio, text),
         alignment_refinements |-> AlignmentRefinements(weak_matches),
         human_readability_stars |-> ReadabilityStars(text),
         ready_to_submit |-> ReadyToSubmit(score, missing_critical)]

\* variant of matched_critical_after: searchable_terms is the argument itself,
\* not a slice of it
matched_critical_after_Aliased(matched_critical, tier2_details) ==
    AddTier2Matches(matched_critical, tier2_details)

\* the list passed as matched_critical once generate_evaluation has returned:
\* searchable_terms = matched_critical[:5] is a new list, so the appends to
\* searchable_terms do not reach the argument
matched_critical_after(matched_critical, tier2_details) == matched_critical

-----------------------------------------------------------------------------
(* transform_to_legacy_format *)

\* {1: "Critical", 2: "Important", 3: "Bonus"}.get(req.get("tier", 2), "Unknown")
TierLabel(tier) ==
    CASE tier = 1 -> "Critical"
      [] tier = 2 -> "Important"
      [] tier = 3 -> "Bonus"
      [] OTHER -> "Unknown"

keyword_entry(req) ==
    [keyword |-> Get(req, "text", ""),
     tier |-> Get(req, "tier", 2),
     tier_label |-> TierLabel(Get(req, "tier", 2)),
     match_type |-> Get(req, "match_type", "NONE"),
     evidence |-> Get(req, "evidence", None)]

\* if req.get("match_type") != "NONE": present_keywords.append(keyword_entry)
IsPresentKeyword(req) == Get(req, "match_type", None) # "NONE"

present_keywords(reqs) == MapSeq(SelectSeq(reqs, IsPresentKeyword), keyword_entry)

missing_keywords(reqs) ==
    MapSeq(SelectSeq(reqs, LAMBDA r : ~ IsPresentKeyword(r)), keyword_entry)

points_summary(scored) ==
    [tier1_earned |-> scored.tier1.earned,
     tier1_possible |-> scored.tier1.possible,
     tier2_earned |-> scored.tier2.earned,
     tier2_possible |-> scored.tier2.possible,
     tier3_earned |-> scored.tier3.earned,
     tier3_possible |-> scored.tier3.possible,
     total_earned |-> scored.total_earned,
     total_possible |-> scored.total_possible]

transform_to_legacy_format(scored, reqs, plan) ==
    [score |-> scored.score,
     interpretation |-> scored.interpretation,
     dimensions |-> scored.dimensions,
     points_summary |-> points_summary(scored),
     keyword_analysis |-> [present |-> present_keywords(reqs),
                           missing |-> missing_keywords(reqs)],
     results |-> [presentKeywords |-> MapSeq(present_keywords(reqs), LAMBDA k : k.keyword),
                  missingKeywords |-> MapSeq(missing_keywords(reqs), LAMBDA k : k.keyword)],
     critical_gaps |-> scored.missing_critical,
     weak_matches |-> scored.weak_matches,
     quick_wins |-> plan,
     caps_applied |-> scored.caps_applied]

-----------------------------------------------------------------------------
(* The end of analyze_resume *)

\* the fields of the dataclass EvaluationResult
EvaluationResultFields ==
    {"hiring_readiness", "hiring_readiness_summary",
     "ats_status", "ats_details", "ats_summary",
     "search_visibility", "searchable_terms", "search_summary",
     "alignment_score", "alignment_strengths", "alignment_refinements",
     "human_readability_stars", "human_readability_notes",
     "ready_to_submit", "verdict_message"}

\* the attributes of evaluation that result["evaluation"] = {...} reads, in order
EvaluationAttributesRead ==
    <<"hiring_status", "hiring_summary", "hiring_reassurance",
      "ats_status", "ats_checks", "ats_summary",
      "search_status", "search_matched", "search_total", "searchable_terms",
      "search_summary",
      "alignment_score", "alignment_label", "alignment_strengths",
      "alignment_refinements",
      "readability_label", "readability_notes",
      "ready_to_submit", "verdict_message", "stop_optimizing">>

\* the attributes read that an EvaluationResult does not have
MissingAttributes == SelectSeq(EvaluationAttributesRead, LAMBDA a : a \notin EvaluationResultFields)

\* reading an attribute the object does not have raises AttributeError
FinalizeRaises == MissingAttributes # <<>>

AttributeErrorMessage(attribute) ==
    "'EvaluationResult' object has no attribute '" \o attribute \o "'"

TypeErrorMessage == "'NoneType' object is not subscriptable"

create_error_response(error_message) ==
    [error |-> "Analysis failed: " \o error_message,
     score |-> 0,
     interpretation |-> "ERROR",
     keyword_analysis |-> [missing |-> <<>>, present |-> <<>>],
     critical_gaps |-> <<>>,
     quick_wins |-> <<[type |-> "critical", title |-> "Analysis Failed",
                       description |-> "Please try again later."]>>]

\* result["scoring_method"] = "hybrid_v2"; result["evaluation"] = {...}
WithEvaluation(legacy, ev) ==
    [k \in DOMAIN legacy \cup {"scoring_method", "evaluation"} |->
        IF k = "scoring_method" THEN "hybrid_v2"
        ELSE IF k = "evaluation"
        THEN [ats |-> [status |-> ev.ats_status],
              search |-> [terms |-> ev.searchable_terms],
              alignment |-> [score |-> ev.alignment_score,
                             strengths |-> ev.alignment_strengths,
                             refinements |-> ev.alignment_refinements],
              verdict |-> [ready_to_submit |-> ev.ready_to_submit]]
        ELSE legacy[k]]

-----------------------------------------------------------------------------
(* Inputs *)

MatchTypes == {"EXACT", "VARIANT", "CONTEXTUAL", "NONE"}

SkillName(i) == "skill" \o ToString(i)

CitedEvidence == "led the platform team"

\* a requirement as the extraction prompt asks for it: evidence is quoted
\* for a match and null for a requirement that was not found
WellFormedReqs(i) ==
    {[text |-> SkillName(i), tier |-> t, match_type |-> m,
      evidence |-> IF m = "NONE" THEN None ELSE CitedEvidence] :
        t \in {1, 2, 3}, m \in MatchTypes}

\* requirement dicts of any shape: tier or match_type absent or outside its
\* enumeration, evidence null for an inferred match
AnyShapeReqs(i) ==
    LET base == [text |-> SkillName(i)]
        withTier == {base} \cup {[text |-> SkillName(i), tier |-> t] : t \in {1, 2, 4}}
        withMatch == withTier \cup
            UNION {{[k \in DOMAIN r \cup {"match_type"} |->
                        IF k = "match_type" THEN m ELSE r[k]] :
                            m \in {"EXACT", "CONTEXTUAL", "NONE", "PARTIAL"}} : r \in withTier}
    IN  UNION {{[k \in DOMAIN r \cup {"evidence"} |-> IF k = "evidence" THEN e ELSE r[k]] :
                    e \in IF Get(r, "match_type", "NONE") = "CONTEXTUAL"
                          THEN {None, CitedEvidence}
                          ELSE IF Get(r, "match_type", "NONE") \in {"EXACT", "VARIANT"}
                          THEN {CitedEvidence} ELSE {None}} : r \in withMatch}

\* critical requirements that are either stated verbatim or missing
CriticalReqs(i) ==
    {[text |-> SkillName(i), tier |-> 1, match_type |-> m,
      evidence |-> IF m = "NONE" THEN None ELSE CitedEvidence] : m \in {"EXACT", "NONE"}}

PreferredMatched(i) ==
    [text |-> SkillName(i), tier |-> 2, match_type |-> "EXACT", evidence |-> CitedEvidence]

\* critical requirements that are stated verbatim or inferred from context
MatchedCriticalReqs(i) ==
    {[text |-> SkillName(i), tier |-> 1, match_type |-> m, evidence |-> CitedEvidence] :
        m \in {"EXACT", "CONTEXTUAL"}}

\* a requirement of the given tier that was not found
MissingReq(i, tier) ==
    [text |-> SkillName(i), tier |-> tier, match_type |-> "NONE", evidence |-> None]

\* the lists of length n whose i-th entry is drawn from D[i]
RECURSIVE ListsOfLen(_, _)
ListsOfLen(D, n) ==
    IF n = 0 THEN {<<>>}
    ELSE {Append(s, r) : s \in ListsOfLen(D, n - 1), r \in D[n]}

ListsUpTo(D, n) == UNION {ListsOfLen(D, k) : k \in 0..n}

GapLists == {<<>>, <<[requirement |-> SkillName(1), suggestion |-> "Add a project using it"]>>}

\* any short list of well-formed requirements for a role that is not senior,
\* under every pair of years
GeneralInputs ==
    /\ requirements \in ListsUpTo([i \in 1..MaxReqs |-> WellFormedReqs(i)], MaxReqs)
    /\ required_years \in 0..MaxYears
    /\ candidate_years \in 0..MaxYears
    /\ is_senior_role = FALSE
    /\ seniority_signals_found = 0
    /\ resume_text = NoResume
    /\ gaps = <<>>

\* up to MaxCritical critical requirements followed by up to MaxPreferred
\* matched preferred ones, under every pair of years and every seniority
CriticalInputs ==
    /\ requirements \in
          {c \o p : c \in ListsUpTo([i \in 1..MaxCritical |-> CriticalReqs(i)], MaxCritical),
                    p \in {[i \in 1..k |-> PreferredMatched(MaxCritical + i)] :
                                k \in 0..MaxPreferred}}
    /\ required_years \in 0..MaxYears
    /\ candidate_years \in 0..MaxYears
    /\ is_senior_role \in BOOLEAN
    /\ seniority_signals_found \in 0..MaxSignals
    /\ resume_text = NoResume
    /\ gaps = <<>>

\* short lists of requirement dicts of any shape, with and without a resume
\* text and gaps, for a candidate who meets the years asked for
ShapeInputs ==
    /\ requirements \in ListsUpTo([i \in 1..MaxShapeReqs |-> AnyShapeReqs(i)], MaxShapeReqs)
    /\ required_years = 0
    /\ candidate_years = 0
    /\ is_senior_role = FALSE
    /\ seniority_signals_found = 0
    /\ resume_text \in ResumeTexts
    /\ gaps \in GapLists

\* up to MaxPlanCritical critical requirements that are stated or inferred,
\* then up to MaxMissingPreferred missing preferred ones and up to
\* MaxMissingBonus missing bonus ones, with and without a resume text, for a
\* candidate with twice the years asked for
PlanInputs ==
    /\ requirements \in
          {c \o [i \in 1..m |-> MissingReq(MaxPlanCritical + i, 2)]
             \o [i \in 1..b |-> MissingReq(MaxPlanCritical + MaxMissingPreferred + i, 3)] :
                c \in ListsUpTo([i \in 1..MaxPlanCritical |-> MatchedCriticalReqs(i)],
                                MaxPlanCritical),
                m \in 0..MaxMissingPreferred,
                b \in 0..MaxMissingBonus}
    /\ required_years = 1
    /\ candidate_years = 2
    /\ is_senior_role = FALSE
    /\ seniority_signals_found = 0
    /\ resume_text \in ResumeTexts
    /\ gaps = <<>>

\* no requirement, one stated critical requirement, or a stated critical and
\* a stated preferred one, for a candidate with up to MaxCareerYears years
\* against a requirement of 1..MaxAskedYears years, without a resume text and
\* with a strong one
SeniorityInputs ==
    /\ requirements \in {SubSeq(<<[text |-> SkillName(1), tier |-> 1, match_type |-> "EXACT",
                                    evidence |-> CitedEvidence], PreferredMatched(2)>>, 1, n) :
                              n \in 0..2}
    /\ required_years \in 1..MaxAskedYears
    /\ candidate_years \in 0..MaxCareerYears
    /\ is_senior_role = FALSE
    /\ seniority_signals_found = 0
    /\ resume_text \in {NoResume, StrongResume}
    /\ gaps = <<>>

NotCalled == <<>>

\* the cache and the calls of the memoized extraction step are left out of
\* the behaviours of the engine
CacheIdle ==
    /\ _extraction_cache = <<>>
    /\ calls = <<>>

Init ==
    /\ GeneralInputs \/ CriticalInputs \/ ShapeInputs \/ PlanInputs \/ SeniorityInputs
    /\ pc = "input"
    /\ scoring_result = NotCalled
    /\ optimization_plan = NotCalled
    /\ evaluation = NotCalled
    /\ result = NotCalled
    /\ exception = None
    /\ CacheIdle

-----------------------------------------------------------------------------
(* The steps of analyze_resume over the engine *)

\* STEP 2: scoring_result = calculate_score(...)
CalculateScore ==
    /\ pc = "input"
    /\ scoring_result' = calculate_score(requirements, required_years, candidate_years,
                                          is_senior_role, seniority_signals_found,
                                          resume_text)
    /\ pc' = "scored"
    /\ UNCHANGED <<inputs, optimization_plan, evaluation, result, exception, cache_vars>>

\* STEP 3: optimization_plan = generate_optimization_plan(...)
GenerateOptimizationPlan ==
    /\ pc = "scored"
    /\ IF PlanRaises(requirements)
       THEN /\ exception' = "TypeError"
            /\ pc' = "failed"
            /\ UNCHANGED optimization_plan
       ELSE /\ optimization_plan' = generate_optimization_plan(scoring_result.score, gaps,
                                                                requirements, resume_text)
            /\ pc' = "planned"
            /\ UNCHANGED exception
    /\ UNCHANGED <<inputs, scoring_result, evaluation, result, cache_vars>>

\* STEP 3.5: evaluation = generate_evaluation(...)
GenerateEvaluation ==
    /\ pc = "planned"
    /\ evaluation' = generate_evaluation(scoring_result.score,
                                          EvaluationTierScores(scoring_result),
                                          scoring_result.missing_critical,
                                          scoring_result.matched_critical,
                                          scoring_result.weak_matches,
                                          scoring_result.experience_ratio,
                                          resume_text)
    /\ scoring_result' =
           [scoring_result EXCEPT !.matched_critical =
               matched_critical_after(@, scoring_result.tier2.match_details)]
    /\ pc' = "evaluated"
    /\ UNCHANGED <<inputs, optimization_plan, result, exception, cache_vars>>

\* STEP 4: result = transform_to_legacy_format(...)
TransformToLegacyFormat ==
    /\ pc = "evaluated"
    /\ result' = transform_to_legacy_format(scoring_result, requirements, optimization_plan)
    /\ pc' = "transformed"
    /\ UNCHANGED <<inputs, scoring_result, optimization_plan, evaluation, exception, cache_vars>>

\* Finalize: result["evaluation"] = {...}; return result.  The first attribute
\* that evaluation does not have raises, and the except clause returns the
\* error response
Finalize ==
    /\ pc = "transformed"
    /\ IF FinalizeRaises
       THEN /\ exception' = "AttributeError"
            /\ result' = create_error_response(AttributeErrorMessage(Head(MissingAttributes)))
       ELSE /\ result' = WithEvaluation(result, evaluation)
            /\ UNCHANGED exception
    /\ pc' = "returned"
    /\ UNCHANGED <<inputs, scoring_result, optimization_plan, evaluation, cache_vars>>

\* except Exception as e: return create_error_response(str(e)), for a step
\* of the engine that raised
ReturnError ==
    /\ pc = "failed"
    /\ result' = create_error_response(TypeErrorMessage)
    /\ pc' = "returned"
    /\ UNCHANGED <<inputs, scoring_result, optimization_plan, evaluation, exception, cache_vars>>

Next ==
    \/ CalculateScore
    \/ GenerateOptimizationPlan
    \/ GenerateEvaluation
    \/ TransformToLegacyFormat
    \/ Finalize
    \/ ReturnError

Spec == Init /\ [][Next]_vars

-----------------------------------------------------------------------------
(* STEP 1 of analyze_resume: the memoized extraction *)

\* the (resume, job) pairs, each standing for its own cache key
Pairs == 1..MaxPairs

\* the extraction results the model may return for a pair
Extractions == {"extraction" \o ToString(i) : i \in 1..MaxExtractions}

Calls == 1..MaxCalls

\* hashlib.sha256(f"{resume.strip()}|||{job.strip()}").hexdigest(): pairs of
\* the model differ in their stripped texts, so each has a key of its own
_get_cache_key(pair) == "key" \o ToString(pair)

HasKey(cache, key) == \E i \in 1..Len(cache) : cache[i].key = key

\* _extraction_cache.get(cache_key)
_get_cached_extraction(cache, key) ==
    LET hits == SelectSeq(cache, LAMBDA entry : entry.key = key)
    IN  IF hits = <<>> THEN None ELSE Head(hits).value

\* if len(_extraction_cache) > 100: delete the first 50 keys
EvictOldest(cache) ==
    IF Len(cache) > CacheThreshold
    THEN SubSeq(cache, Min(EvictCount, Len(cache)) + 1, Len(cache))
    ELSE cache

\* _extraction_cache[cache_key] = result: a key already present keeps its place
SetItem(cache, key, value) ==
    IF HasKey(cache, key)
    THEN [i \in 1..Len(cache) |->
             IF cache[i].key = key THEN [key |-> key, value |-> value] ELSE cache[i]]
    ELSE Append(cache, [key |-> key, value |-> value])

_cache_extraction(cache, key, value) == SetItem(EvictOldest(cache), key, value)

\* every call is yet to start; the first two are for the same pair
CacheInit ==
    /\ _extraction_cache = <<>>
    /\ calls \in {c \in [Calls -> [pair : Pairs, at : {"lookup"}, ai_extraction : {None}]] :
                     c[1].pair = 1 /\ c[2].pair = 1}
    /\ requirements = <<>>
    /\ required_years = 0
    /\ candidate_years = 0
    /\ is_senior_role = FALSE
    /\ seniority_signals_found = 0
    /\ resume_text = NoResume
    /\ gaps = <<>>
    /\ pc = "input"
    /\ scoring_result = NotCalled
    /\ optimization_plan = NotCalled
    /\ evaluation = NotCalled
    /\ result = NotCalled
    /\ exception = None

\* cached_result = _get_cached_extraction(cache_key); if cached_result: ...
Lookup(c) ==
    /\ calls[c].at = "lookup"
    /\ LET cached_result ==
               _get_cached_extraction(_extraction_cache, _get_cache_key(calls[c].pair))
       IN  IF cached_result # None
           THEN calls' = [calls EXCEPT ![c].ai_extraction = cached_result, ![c].at = "score"]
           ELSE calls' = [calls EXCEPT ![c].at = "extract"]
    /\ UNCHANGED <<_extraction_cache, pipeline_vars>>

\* response = client.chat.completions.create(...);
\* ai_extraction = parse_extraction_response(response): the service answers
\* with any of the extractions
Extract(c) ==
    /\ calls[c].at = "extract"
    /\ \E extraction \in Extractions :
           calls' = [calls EXCEPT ![c].ai_extraction = extraction, ![c].at = "store"]
    /\ UNCHANGED <<_extraction_cache, pipeline_vars>>

\* _cache_extraction(cache_key, ai_extraction)
Store(c) ==
    /\ calls[c].at = "store"
    /\ _extraction_cache' =
           _cache_extraction(_extraction_cache, _get_cache_key(calls[c].pair),
                             calls[c].ai_extraction)
    /\ calls' = [calls EXCEPT ![c].at = "score"]
    /\ UNCHANGED pipeline_vars

\* STEP 2: requirements = ai_extraction.get("requirements", []) ...
UseExtraction(c) ==
    /\ calls[c].at = "score"
    /\ calls' = [calls EXCEPT ![c].at = "done"]
    /\ UNCHANGED <<_extraction_cache, pipeline_vars>>

CacheNext == \E c \in Calls : Lookup(c) \/ Extract(c) \/ Store(c) \/ UseExtraction(c)

CacheSpec == CacheInit /\ [][CacheNext]_vars

-----------------------------------------------------------------------------
(* _cache_extraction and clear_cache, statement by statement, as threads    *)
(* of the server run them                                                  *)

\* the first EvictCount keys in insertion order: list(cache.keys())[:50]
OldestKeys(cache) ==
    MapSeq(SubSeq(cache, 1, Min(EvictCount, Len(cache))), LAMBDA entry : entry.key)

\* del _extraction_cache[key] for a key that is present
DelItem(cache, key) == SelectSeq(cache, LAMBDA entry : entry.key # key)

\* every insertion is yet to start, each for any of the pairs
InsertInit ==
    /\ _extraction_cache = <<>>
    /\ calls \in [Calls -> [pair : Pairs, at : {"check"}, keys_to_remove : {<<>>}]]
    /\ requirements = <<>>
    /\ required_years = 0
    /\ candidate_years = 0
    /\ is_senior_role = FALSE
    /\ seniority_signals_found = 0
    /\ resume_text = NoResume
    /\ gaps = <<>>
    /\ pc = "input"
    /\ scoring_result = NotCalled
    /\ optimization_plan = NotCalled
    /\ evaluation = NotCalled
    /\ result = NotCalled
    /\ exception = None

\* if len(_extraction_cache) > 100:
CheckSize(c) ==
    /\ calls[c].at = "check"
    /\ calls' = [calls EXCEPT ![c].at = IF Len(_extraction_cache) > CacheThreshold
                                        THEN "snapshot" ELSE "set"]
    /\ UNCHANGED <<_extraction_cache, pipeline_vars>>

\* keys_to_remove = list(_extraction_cache.keys())[:50]
TakeOldest(c) ==
    /\ calls[c].at = "snapshot"
    /\ calls' = [calls EXCEPT ![c].keys_to_remove = OldestKeys(_extraction_cache),
                              ![c].at = "delete"]
    /\ UNCHANGED <<_extraction_cache, pipeline_vars>>

\* for key in keys_to_remove: del _extraction_cache[key]; the del raises
\* KeyError when the key is no longer in the dict
DeleteKey(c) ==
    /\ calls[c].at = "delete"
    /\ IF calls[c].keys_to_remove = <<>>
       THEN /\ calls' = [calls EXCEPT ![c].at = "set"]
            /\ UNCHANGED _extraction_cache
       ELSE IF HasKey(_extraction_cache, Head(calls[c].keys_to_remove))
       THEN /\ _extraction_cache' = DelItem(_extraction_cache, Head(calls[c].keys_to_remove))
            /\ calls' = [calls EXCEPT ![c].keys_to_remove = Tail(@)]
       ELSE /\ calls' = [calls EXCEPT ![c].at = "KeyError"]
            /\ UNCHANGED _extraction_cache
    /\ UNCHANGED pipeline_vars

\* _extraction_cache[cache_key] = result, and the call returns
SetKey(c) ==
    /\ calls[c].at = "set"
    /\ _extraction_cache' =
           SetItem(_extraction_cache, _get_cache_key(calls[c].pair), "extraction1")
    /\ calls' = [calls EXCEPT ![c].at = "returned"]
    /\ UNCHANGED pipeline_vars

\* clear_cache(): _extraction_cache.clear()
ClearCache ==
    /\ _extraction_cache # <<>>
    /\ _extraction_cache' = <<>>
    /\ UNCHANGED <<calls, pipeline_vars>>

InsertNext ==
    \/ \E c \in Calls : CheckSize(c) \/ TakeOldest(c) \/ DeleteKey(c) \/ SetKey(c)
    \/ ClearCache

InsertSpec == InsertInit /\ [][InsertNext]_vars

TypeOK == pc \in {"input", "scored", "planned", "evaluated", "transformed", "returned", "failed"}

-----------------------------------------------------------------------------
(* Properties of calculate_score *)

Scored == pc # "input"

\* C1: the final score returned by calculate_score is an integer and lies
\* in 0..100, for every requirement list (the empty one included) and every
\* experience input
C1_ScoreInRange == Scored => scoring_result.score \in 0..100

\* a score that is 100 only because the raw score was clamped
C1_Witness ==
    /\ pc = "scored"
    /\ requirements # <<>>
    /\ scoring_result.experience_adjustment > 0
    /\ scoring_result.score = 100

WithMatchType(reqs, i, m) ==
    [reqs EXCEPT ![i] = [k \in DOMAIN @ \cup {"match_type"} |->
                            IF k = "match_type" THEN m ELSE @[k]]]

\* the score calculate_score returns for reqs
ScoreOf(reqs) ==
    CappedScore(reqs, required_years, candidate_years,
                is_senior_role, seniority_signals_found).final_score

\* C3: changing one requirement from NONE to EXACT, all else fixed, never
\* decreases the final score, and changing one from EXACT to NONE never
\* increases it
C3_Monotone ==
    pc = "scored" =>
        \A i \in 1..Len(requirements) :
            /\ ReqMatchType(requirements[i]) = "NONE"
                  => ScoreOf(WithMatchType(requirements, i, "EXACT")) >= scoring_result.score
            /\ ReqMatchType(requirements[i]) = "EXACT"
                  => ScoreOf(WithMatchType(requirements, i, "NONE")) <= scoring_result.score

\* a missing critical requirement whose match lifts a binding Tier-1 cap
C3_Witness ==
    /\ pc = "scored"
    /\ \E i \in 1..Len(requirements) :
          /\ IsMissingCritical(requirements[i])
          /\ scoring_result.score = 75
          /\ ScoreOf(WithMatchType(requirements, i, "EXACT")) > 75

-----------------------------------------------------------------------------
(* Properties of generate_optimization_plan *)

Planned == pc \in {"planned", "evaluated", "transformed"} \/ (pc = "returned" /\ exception # "TypeError")

HasPolish(plan) == \E i \in 1..Len(plan) : plan[i].category = "polish"

\* none of the rules for critical, high, medium, quantification and low
\* items applies to the inputs
NoRuleApplies ==
    /\ \A i \in 1..Len(requirements) :
          LET r == requirements[i]
          IN  /\ ~ (HasTier(r, 1) /\ HasMatchType(r, "NONE"))
              /\ ~ (HasTier(r, 1) /\ HasMatchType(r, "CONTEXTUAL"))
              /\ ~ (HasTier(r, 2) /\ HasMatchType(r, "NONE"))
    /\ resume_text = NoResume \/ metrics_count(resume_text) >= 3
    /\ scoring_result.score < 85

\* C4: the plan returned by generate_optimization_plan is never empty; the
\* polish item is in it exactly when no other rule applies, and then it is
\* the only item
C4_PlanNeverEmpty ==
    Planned =>
        /\ optimization_plan # <<>>
        /\ HasPolish(optimization_plan) <=> NoRuleApplies
        /\ HasPolish(optimization_plan) => Len(optimization_plan) = 1

\* the fallback was needed for a non-empty requirement list
C4_Witness ==
    /\ pc = "planned"
    /\ requirements # <<>>
    /\ optimization_plan = <<PolishItem>>

-----------------------------------------------------------------------------
(* Totality and input defaulting *)

\* tier, match_type and evidence of every requirement are of the declared types
WellTyped(reqs) ==
    \A i \in 1..Len(reqs) :
        /\ HasTier(reqs[i], 1) \/ HasTier(reqs[i], 2) \/ HasTier(reqs[i], 3)
        /\ \E m \in MatchTypes : HasMatchType(reqs[i], m)
        /\ "evidence" \in DOMAIN reqs[i]

\* C5: for well-typed input calculate_score, generate_optimization_plan and
\* generate_evaluation each return and none raises, also for a Tier-1
\* CONTEXTUAL requirement whose evidence is null
C5_CoreIsTotal == WellTyped(requirements) => pc # "failed" /\ exception # "TypeError"

\* the requirement with the documented defaults applied: tier 2 for an absent
\* or invalid tier, NONE for an absent or invalid match_type
Defaulted(req) ==
    [k \in DOMAIN req \cup {"tier", "match_type"} |->
        IF k = "tier"
        THEN IF HasTier(req, 1) \/ HasTier(req, 2) \/ HasTier(req, 3) THEN req.tier ELSE 2
        ELSE IF k = "match_type"
        THEN IF \E m \in MatchTypes : HasMatchType(req, m) THEN req.match_type ELSE "NONE"
        ELSE req[k]]

Counts(b) == <<b.earned, b.possible, b.matched_count, b.total_count>>

\* C6: a requirement with an absent or invalid tier is scored as Tier 2 and
\* one with an absent or invalid match_type as NONE: scores, tier counts,
\* missing_critical, matched_critical and caps are those of the defaulted list
C6_DefaultedLikeNone ==
    Scored =>
        LET d == calculate_score(MapSeq(requirements, Defaulted), required_years,
                                 candidate_years, is_senior_role, seniority_signals_found,
                                 resume_text)
            r == scoring_result
        IN  /\ r.score = d.score
            /\ r.raw_score = d.raw_score
            /\ Counts(r.tier1) = Counts(d.tier1)
            /\ Counts(r.tier2) = Counts(d.tier2)
            /\ Counts(r.tier3) = Counts(d.tier3)
            /\ r.missing_critical = d.missing_critical
            /\ r.matched_critical = d.matched_critical
            /\ r.caps_applied = d.caps_applied

-----------------------------------------------------------------------------
(* Properties of generate_evaluation *)

\* C7: ready_to_submit is true exactly when (score >= 70 and nothing critical
\* is missing) or (score >= 55 and at most one critical requirement is missing)
C7_VerdictRule ==
    pc = "evaluated" =>
        (evaluation.ready_to_submit <=>
            \/ scoring_result.score >= 70 /\ Len(scoring_result.missing_critical) = 0
            \/ scoring_result.score >= 55 /\ Len(scoring_result.missing_critical) <= 1)

\* not ready although the score reaches 55, because two critical
\* requirements are missing
C7_Witness ==
    /\ pc = "evaluated"
    /\ scoring_result.score >= 55
    /\ Len(scoring_result.missing_critical) = 2
    /\ ~ evaluation.ready_to_submit

-----------------------------------------------------------------------------
(* The hard caps *)

Tier1Count(reqs) == CountSeq(reqs, LAMBDA r : ReqTier(r) = 1)

Tier1NoneCount(reqs) == CountSeq(reqs, LAMBDA r : ReqTier(r) = 1 /\ ReqMatchType(r) = "NONE")

\* the ceiling the claim selects: 0 stands for no ceiling
ExpectedTier1Ceiling(reqs) ==
    LET n == Tier1NoneCount(reqs)
    IN  IF Tier1Count(reqs) > 0 /\ n = Tier1Count(reqs) THEN 30
        ELSE IF n >= 3 THEN 45
        ELSE IF n = 2 THEN 60
        ELSE IF n = 1 THEN 75
        ELSE 0

ExpectedTier1Reasons(reqs) ==
    LET n == Tier1NoneCount(reqs)
        c == ExpectedTier1Ceiling(reqs)
    IN  CASE c = 30 -> <<"No critical requirements matched">>
          [] c = 45 -> <<"Missing " \o ToString(n) \o "+ critical requirements">>
          [] c = 60 -> <<"Missing 2 critical requirements">>
          [] c = 75 -> <<"Missing 1 critical requirement(s)">>
          [] OTHER -> <<>>

IsTier1Reason(reason) == reason # "Experience below 50% of requirement"

\* C8: at most one Tier-1 ceiling applies, most severe first (30 when every
\* Tier-1 requirement is NONE, else 45 / 60 / 75 for 3+ / 2 / 1 missing); its
\* reason is recorded, exactly one whenever a Tier-1 requirement is NONE, also
\* when the raw score is below the ceiling
C8_Tier1CapSelection ==
    pc = "scored" =>
        /\ SelectSeq(scoring_result.caps_applied, IsTier1Reason)
               = ExpectedTier1Reasons(requirements)
        /\ ExpectedTier1Ceiling(requirements) # 0
               => scoring_result.score <= ExpectedTier1Ceiling(requirements)
        /\ Tier1NoneCount(requirements) > 0
               => Len(SelectSeq(scoring_result.caps_applied, IsTier1Reason)) = 1

\* three critical requirements are missing, one is matched, and the ceiling
\* of 45 binds
C8_Witness ==
    /\ pc = "scored"
    /\ scoring_result.caps_applied = <<"Missing 3+ critical requirements">>
    /\ scoring_result.score = 45
    /\ scoring_result.raw_score > 450

\* min(raw, Tier-1 ceiling if any, 55 if the ratio is below 0.5), rounded
ExpectedFinal(reqs, required, candidate, senior, signals) ==
    LET raw == RawScore(reqs, required, candidate, senior, signals)
        c1 == ExpectedTier1Ceiling(reqs)
        afterTier1 == IF c1 # 0 THEN Min(raw[1], c1 * raw[2]) ELSE raw[1]
        afterExperience ==
            IF required > 0 /\ 2 * candidate < required
            THEN Min(afterTier1, 55 * raw[2]) ELSE afterTier1
    IN  RoundHalfEven(afterExperience, raw[2])

ScenarioB ==
    <<[text |-> "Python", tier |-> 1, match_type |-> "EXACT", evidence |-> CitedEvidence],
      [text |-> "Kubernetes", tier |-> 1, match_type |-> "NONE", evidence |-> None]>>

ScenarioD ==
    <<[text |-> "Python", tier |-> 1, match_type |-> "EXACT", evidence |-> CitedEvidence]>>

ScenarioBResult == calculate_score(ScenarioB, 1, 1, FALSE, 0, NoResume)

ScenarioDResult == calculate_score(ScenarioD, 10, 2, FALSE, 0, NoResume)

C10_EmptyListRawZero ==
    (Scored /\ requirements = <<>>) => scoring_result.raw_score = 0

\* C10 amended: for the empty requirement list calculate_score returns, the
\* point term is 0 and the raw score is the experience adjustment clamped at
\* 0 (raw_score is in tenths)
C10_EmptyListRawIsAdjustment ==
    (Scored /\ requirements = <<>>) =>
        /\ scoring_result.total_possible = 0
        /\ scoring_result.raw_score = 10 * Max(0, scoring_result.experience_adjustment)
        /\ scoring_result.score = Max(0, scoring_result.experience_adjustment)
        /\ scoring_result.raw_score \in {0, 30, 50, 80}

\* the empty list scored for a senior candidate with ample experience
C10_Witness ==
    /\ pc = "scored"
    /\ requirements = <<>>
    /\ scoring_result.experience_adjustment = 8
    /\ scoring_result.raw_score = 80

-----------------------------------------------------------------------------
(* The experience adjustment *)

\* the ratio part as the claim states it, for candidate / required years
ExpectedRatioPart(candidate, required) ==
    IF required <= 0 THEN 0
    ELSE IF 2 * candidate < required THEN -15
    ELSE IF 4 * candidate < 3 * required THEN -8
    ELSE IF 2 * candidate >= 3 * required THEN 3
    ELSE 0

\* the seniority part as the claim states it
ExpectedSeniorityPart(senior, signals) ==
    IF ~ senior THEN 0
    ELSE IF signals >= 2 THEN 5
    ELSE IF signals = 0 THEN -10
    ELSE 0

\* the ratio part of the code and that of the claim agree on every pair of
\* years up to MaxSweepYears
RatioSweepAgrees ==
    \A c \in 0..MaxSweepYears, r \in 0..MaxSweepYears :
        RatioAdjustment(ExperienceRatio(r, c)) = ExpectedRatioPart(c, r)

\* C11: experience_adjustment is the ratio part (-15 below 0.5, -8 in
\* [0.5, 0.75), +3 from 1.5, else 0; ratio 1.0 when no years are required)
\* plus the seniority part (+5 for two or more signals, -10 for none, only
\* for a senior role)
C11_ExperienceAdjustment ==
    /\ pc = "scored" =>
        /\ scoring_result.experience_adjustment =
               ExpectedRatioPart(candidate_years, required_years)
                  + ExpectedSeniorityPart(is_senior_role, seniority_signals_found)
        /\ required_years <= 0 => scoring_result.experience_ratio = 100
        /\ required_years > 0 =>
               scoring_result.experience_ratio =
                   RoundHalfEven(100 * candidate_years, required_years)
    /\ RatioSweepAgrees

\* the two penalties stack for a senior role without signals and with less
\* than half the years
C11_Witness ==
    /\ pc = "scored"
    /\ is_senior_role
    /\ seniority_signals_found = 0
    /\ required_years > 0
    /\ 2 * candidate_years < required_years
    /\ scoring_result.experience_adjustment = -25

-----------------------------------------------------------------------------
(* The perfect match *)

\* a list with at least one requirement, every one of them an EXACT match,
\* for a role that is not senior and a ratio in [0.75, 1.5)
PerfectMatch ==
    /\ requirements # <<>>
    /\ \A i \in 1..Len(requirements) : ReqMatchType(requirements[i]) = "EXACT"
    /\ ~ is_senior_role
    /\ \/ required_years <= 0
       \/ /\ 4 * candidate_years >= 3 * required_years
          /\ 2 * candidate_years < 3 * required_years

-----------------------------------------------------------------------------
(* Order of the cap reasons *)

\* the ceiling of the cap a reason stands for
CeilingOfReason(reason) ==
    IF reason = ZeroTier1Reason THEN hard_caps.zero_tier1_matches
    ELSE IF reason = ExperienceReason THEN hard_caps.experience_below_50pct
    ELSE IF reason = Missing1Reason(1) THEN hard_caps.missing_1_tier1
    ELSE IF reason = Missing2Reason(2) THEN hard_caps.missing_2_tier1
    ELSE hard_caps.missing_3_tier1

\* C13 as stated: of two reported reasons the one of the lower ceiling comes
\* first
C13_OrderedBySeverity ==
    pc = "scored" =>
        \A i, j \in 1..Len(scoring_result.caps_applied) :
            i < j => CeilingOfReason(scoring_result.caps_applied[i])
                        <= CeilingOfReason(scoring_result.caps_applied[j])

\* C13 amended: at most two reasons are reported, the Tier-1 reason first and
\* the experience reason last, whenever a Tier-1 requirement is missing and
\* the ratio is below 0.5; that is severity order for the ceilings 30 and 45
\* and the reverse of it for 60 and 75
C13_OrderedByEvaluation ==
    pc = "scored" =>
        LET caps == scoring_result.caps_applied
        IN  /\ Len(caps) <= 2
            /\ (required_years > 0 /\ 2 * candidate_years < required_years
                    /\ Tier1NoneCount(requirements) > 0) => Len(caps) = 2
            /\ Len(caps) = 2 =>
                   /\ caps[1] # ExperienceReason
                   /\ caps[2] = ExperienceReason
                   /\ CeilingOfReason(caps[1]) <= CeilingOfReason(caps[2])
                          <=> CeilingOfReason(caps[1]) \in {30, 45}

\* the reason of the ceiling 60 reported before the reason of the ceiling 55
C13_Witness ==
    /\ pc = "scored"
    /\ scoring_result.caps_applied =
           <<"Missing 2 critical requirements", "Experience below 50% of requirement">>

-----------------------------------------------------------------------------
(* Purity of the core *)

-----------------------------------------------------------------------------
(* The memoized extraction *)

\* C15: all calls for the same (resume, job) pair that have reached scoring
\* use the same extraction result
C15_SameExtraction ==
    \A c, d \in DOMAIN calls :
        (/\ calls[c].pair = calls[d].pair
         /\ calls[c].at \in {"score", "done"}
         /\ calls[d].at \in {"score", "done"})
            => calls[c].ai_extraction = calls[d].ai_extraction

-----------------------------------------------------------------------------
(* The legacy view *)

SeqToSet(seq) == {seq[i] : i \in 1..Len(seq)}

\* C16: the present and missing keyword lists partition the requirements,
\* the missing list holds exactly the requirements the scorer counted as NONE
\* (the skills of dimensions.keyword_presence.details.missing), the present
\* list is as long as the sum of the tiers' matched_count, and the point
\* totals and the caps are those of the ScoringResult
C16_LegacyIsReshaping ==
    pc = "transformed" =>
        LET present == result.results.presentKeywords
            missing == result.results.missingKeywords
            scored_missing == scoring_result.dimensions.keyword_presence.details.missing
        IN  /\ Len(present) + Len(missing) = Len(requirements)
            /\ SeqToSet(present) \cup SeqToSet(missing) = SeqToSet(Texts(requirements))
            /\ SeqToSet(missing) = SeqToSet(scored_missing)
            /\ Len(missing) = Len(scored_missing)
            /\ Len(present) = scoring_result.tier1.matched_count
                                 + scoring_result.tier2.matched_count
                                 + scoring_result.tier3.matched_count
            /\ result.points_summary.total_earned = scoring_result.total_earned
            /\ result.points_summary.total_possible = scoring_result.total_possible
            /\ result.points_summary.tier1_earned = scoring_result.tier1.earned
            /\ result.caps_applied = scoring_result.caps_applied

-----------------------------------------------------------------------------
(* The response of analyze_resume *)

\* scoring, plan generation and evaluation have completed and analyze_resume
\* has returned
ReturnedAfterEvaluation == pc = "returned" /\ evaluation # NotCalled

\* C17: when scoring, plan generation and evaluation complete, the response
\* carries the score of calculate_score and an evaluation entry built from
\* the EvaluationResult, and no error key
C17_ReturnsAssembledAnalysis ==
    ReturnedAfterEvaluation =>
        /\ "error" \notin DOMAIN result
        /\ "evaluation" \in DOMAIN result
        /\ result.score = scoring_result.score
        /\ result.interpretation # "ERROR"

-----------------------------------------------------------------------------
(* Plan and scorer on the critical gaps *)

CriticalItems(plan) == SelectSeq(plan, LAMBDA item : item.type = "critical")

\* C18: the plan holds one critical item per entry of missing_critical, in
\* the same order and naming the same skill, also for a Tier-1 requirement
\* whose match_type is absent
C18_PlanMatchesMissingCritical ==
    pc = "planned" =>
        MapSeq(CriticalItems(optimization_plan), LAMBDA item : item.title)
            = MapSeq(scoring_result.missing_critical,
                     LAMBDA skill : "Add Critical Skill: " \o skill)

-----------------------------------------------------------------------------
(* The tier accumulator *)

Tiers(scored) == <<scored.tier1, scored.tier2, scored.tier3>>

\* C19: every requirement is counted in exactly one tier, possible is the
\* tier's points times total_count, 0 <= earned <= possible, matched_count <=
\* total_count, and missing_critical and matched_critical partition Tier 1
\* with len(matched_critical) = tier1.matched_count (earned is in tenths)
C19_CountingInvariant ==
    pc = "scored" =>
        LET t == Tiers(scoring_result)
        IN  /\ t[1].total_count + t[2].total_count + t[3].total_count = Len(requirements)
            /\ t[1].possible = 15 * t[1].total_count
            /\ t[2].possible = 8 * t[2].total_count
            /\ t[3].possible = 4 * t[3].total_count
            /\ \A i \in 1..3 :
                   /\ 0 <= t[i].earned
                   /\ t[i].earned <= 10 * t[i].possible
                   /\ t[i].matched_count <= t[i].total_count
                   /\ Len(t[i].match_details) = t[i].total_count
            /\ Len(scoring_result.missing_critical) + Len(scoring_result.matched_critical)
                   = t[1].total_count
            /\ Len(scoring_result.matched_critical) = t[1].matched_count
            /\ SeqToSet(scoring_result.missing_critical)
                   \cap SeqToSet(scoring_result.matched_critical) = {}

\* a requirement whose tier is absent or invalid counted in Tier 2, next to a
\* missing critical requirement
C19_Witness ==
    /\ pc = "scored"
    /\ \E i \in 1..Len(requirements) :
           ~ HasTier(requirements[i], 2) /\ ReqTier(requirements[i]) = 2
    /\ scoring_result.tier2.total_count = 1
    /\ scoring_result.tier2.matched_count = 1
    /\ scoring_result.tier1.total_count = 1
    /\ Len(scoring_result.missing_critical) = 1

-----------------------------------------------------------------------------
(* CONTEXTUAL matches *)

IsContextualCritical(req) == ReqTier(req) = 1 /\ ReqMatchType(req) = "CONTEXTUAL"

\* the result for the list in which requirement i is an EXACT match
ResultWithExact(i) ==
    calculate_score(WithMatchType(requirements, i, "EXACT"), required_years,
                    candidate_years, is_senior_role, seniority_signals_found, resume_text)

\* C20: a Tier-1 CONTEXTUAL requirement earns 75% of its 15 points, is in
\* matched_critical and in weak_matches and not in missing_critical, and
\* counts toward no Tier-1 cap (the caps are those of the list in which it
\* is EXACT); weak_matches is the CONTEXTUAL requirements of Tier 1 and
\* Tier 2 in input order
C20_ContextualIsAMatch ==
    pc = "scored" =>
        /\ \A i \in 1..Len(requirements) :
               IsContextualCritical(requirements[i]) =>
                   LET skill == Get(requirements[i], "text", "")
                   IN  /\ skill \in SeqToSet(scoring_result.matched_critical)
                       /\ skill \in SeqToSet(scoring_result.weak_matches)
                       /\ skill \notin SeqToSet(scoring_result.missing_critical)
                       /\ \E k \in 1..Len(scoring_result.tier1.match_details) :
                              LET d == scoring_result.tier1.match_details[k]
                              IN  /\ d.skill = skill
                                  /\ d.credit_pct = 75
                                  /\ d.points_possible = 15
                                  /\ d.points_earned = 112
                       /\ ResultWithExact(i).caps_applied = scoring_result.caps_applied
                       /\ ResultWithExact(i).missing_critical
                              = scoring_result.missing_critical
        /\ scoring_result.weak_matches =
               Texts(SelectSeq(requirements,
                               LAMBDA r : ReqMatchType(r) = "CONTEXTUAL" /\ ReqTier(r) # 3))
        /\ (requirements # <<>>
               /\ \A i \in 1..Len(requirements) : IsContextualCritical(requirements[i])
               /\ scoring_result.experience_adjustment = 0)
              => /\ scoring_result.raw_score = 750
                 /\ scoring_result.score = 75
                 /\ scoring_result.caps_applied = <<>>

\* every critical requirement is matched contextually: score 75 without a cap
C20_Witness ==
    /\ pc = "scored"
    /\ Len(requirements) = 2
    /\ \A i \in 1..Len(requirements) : IsContextualCritical(requirements[i])
    /\ scoring_result.weak_matches = scoring_result.matched_critical
    /\ scoring_result.caps_applied = <<>>
    /\ scoring_result.score = 75

-----------------------------------------------------------------------------
(* Interpretation and caps *)

\* the band of a final score as the claim states it
ExpectedBand(score) ==
    IF score >= 85 THEN "STRONG MATCH"
    ELSE IF score >= 70 THEN "GOOD MATCH"
    ELSE IF score >= 55 THEN "BORDERLINE"
    ELSE IF score >= 40 THEN "BELOW THRESHOLD"
    ELSE "POOR FIT"

\* C21: the interpretation is the band of the final score (85, 70, 55, 40);
\* a result with a missing Tier-1 requirement is never STRONG MATCH, one
\* with an experience ratio below 0.5 is at best BORDERLINE, and one in
\* which every Tier-1 requirement is NONE (at least one exists) is POOR FIT
C21_InterpretationFollowsCaps ==
    pc = "scored" =>
        /\ scoring_result.interpretation = ExpectedBand(scoring_result.score)
        /\ scoring_result.missing_critical # <<>>
              => scoring_result.interpretation # "STRONG MATCH"
        /\ (required_years > 0 /\ 2 * candidate_years < required_years)
              => scoring_result.interpretation \in
                     {"BORDERLINE", "BELOW THRESHOLD", "POOR FIT"}
        /\ scoring_result.experience_ratio < 50
              => scoring_result.interpretation \in
                     {"BORDERLINE", "BELOW THRESHOLD", "POOR FIT"}
        /\ (Tier1Count(requirements) > 0
               /\ Tier1NoneCount(requirements) = Tier1Count(requirements))
              => scoring_result.interpretation = "POOR FIT"

\* a raw score in the band of a strong match that one missing critical
\* requirement holds at GOOD MATCH
C21_Witness ==
    /\ pc = "scored"
    /\ Len(scoring_result.missing_critical) = 1
    /\ scoring_result.raw_score >= 850
    /\ scoring_result.experience_adjustment > 0
    /\ scoring_result.interpretation = "GOOD MATCH"

\* every critical requirement is NONE while the preferred ones are matched
\* and the experience earns a bonus
C21_WitnessPoorFit ==
    /\ pc = "scored"
    /\ Tier1Count(requirements) > 0
    /\ Tier1NoneCount(requirements) = Tier1Count(requirements)
    /\ scoring_result.tier2.matched_count > 0
    /\ scoring_result.raw_score > 300
    /\ scoring_result.interpretation = "POOR FIT"

-----------------------------------------------------------------------------
(* Order and bounds of the plan *)

\* the rank of a priority, critical first
PriorityRank(type) ==
    CASE type = "critical" -> 1
      [] type = "high" -> 2
      [] type = "medium" -> 3
      [] type = "low" -> 4

CountCategory(plan, category) == CountSeq(plan, LAMBDA item : item.category = category)

CountTitle(plan, title) == CountSeq(plan, LAMBDA item : item.title = title)

\* C22: in every plan returned the items are in non-increasing priority
\* (critical, high, medium, low); there is one high item per Tier-1
\* CONTEXTUAL requirement, at most 3 missing_preferred_skill items, at most
\* one quantification item, and the low 'Stand Out' and 'Optional Bonus
\* Skills' items only when score >= 85, the latter only when some Tier-3
\* requirement is NONE
C22_PlanOrderAndBounds ==
    pc = "planned" =>
        LET plan == optimization_plan
        IN  /\ \A i \in 1..Len(plan) : plan[i].type \in {"critical", "high", "medium", "low"}
            /\ \A i, j \in 1..Len(plan) :
                   i < j => PriorityRank(plan[i].type) <= PriorityRank(plan[j].type)
            /\ CountSeq(plan, LAMBDA item : item.type = "high")
                   = CountSeq(requirements, IsContextualCritical)
            /\ CountCategory(plan, "missing_preferred_skill") <= 3
            /\ CountCategory(plan, "missing_preferred_skill")
                   = Min(3, CountSeq(requirements,
                                     LAMBDA r : HasTier(r, 2) /\ HasMatchType(r, "NONE")))
            /\ CountCategory(plan, "quantification") <= 1
            /\ CountTitle(plan, "Stand Out from Competition") <= 1
            /\ CountTitle(plan, "Optional Bonus Skills") <= 1
            /\ CountTitle(plan, "Stand Out from Competition") > 0 => scoring_result.score >= 85
            /\ CountTitle(plan, "Optional Bonus Skills") > 0 =>
                   /\ scoring_result.score >= 85
                   /\ \E i \in 1..Len(requirements) :
                          ReqTier(requirements[i]) = 3 /\ ReqMatchType(requirements[i]) = "NONE"

\* more than three preferred requirements are missing and the plan shows
\* three of them after the high item of an inferred critical requirement
C22_Witness ==
    /\ pc = "planned"
    /\ CountSeq(requirements, LAMBDA r : HasTier(r, 2) /\ HasMatchType(r, "NONE")) > 3
    /\ CountCategory(optimization_plan, "missing_preferred_skill") = 3
    /\ CountSeq(optimization_plan, LAMBDA item : item.type = "high") > 0
    /\ CountCategory(optimization_plan, "quantification") = 1

\* a score of 85 or more with a missing bonus requirement: both low items
C22_WitnessBonus ==
    /\ pc = "planned"
    /\ scoring_result.score >= 85
    /\ CountTitle(optimization_plan, "Stand Out from Competition") = 1
    /\ CountTitle(optimization_plan, "Optional Bonus Skills") = 1
    /\ Len(optimization_plan) = 2

-----------------------------------------------------------------------------
(* Hiring readiness *)

\* the label as the claim states it, for the number of missing critical
\* requirements and the ratio in hundredths
ExpectedReadiness(missing, ratio) ==
    IF missing = 0 /\ ratio >= 75 THEN "HIGH"
    ELSE IF missing <= 1 /\ ratio >= 50 THEN "MEDIUM"
    ELSE "LOW"

\* scores on both sides of every band and verdict threshold
ProbeScores == {0, 54, 55, 69, 70, 84, 85, 100}

\* the label generate_evaluation gives for the arguments of the current
\* call with another score
ReadinessAtScore(score) ==
    generate_evaluation(score, EvaluationTierScores(scoring_result),
                        scoring_result.missing_critical, scoring_result.matched_critical,
                        scoring_result.weak_matches, scoring_result.experience_ratio,
                        resume_text).hiring_readiness

\* C23: hiring readiness is HIGH exactly when missing_critical is empty and
\* experience_ratio >= 0.75, otherwise MEDIUM exactly when missing_critical
\* has at most one entry and experience_ratio >= 0.5, otherwise LOW, and it
\* is the same for every score
C23_HiringReadinessRule ==
    pc = "evaluated" =>
        /\ evaluation.hiring_readiness =
               ExpectedReadiness(Len(scoring_result.missing_critical),
                                 scoring_result.experience_ratio)
        /\ \A score \in ProbeScores : ReadinessAtScore(score) = evaluation.hiring_readiness

\* a score of a strong match with one missing critical requirement is
\* MEDIUM only
C23_Witness ==
    /\ pc = "evaluated"
    /\ Len(scoring_result.missing_critical) = 1
    /\ scoring_result.experience_ratio >= 75
    /\ scoring_result.score >= 70
    /\ evaluation.hiring_readiness = "MEDIUM"

-----------------------------------------------------------------------------
(* ATS compatibility and search visibility *)

\* matched and total requirements over all tiers, as the scorer counted them
TotalMatched ==
    scoring_result.tier1.matched_count + scoring_result.tier2.matched_count
        + scoring_result.tier3.matched_count

TotalKeywords ==
    scoring_result.tier1.total_count + scoring_result.tier2.total_count
        + scoring_result.tier3.total_count

\* match_rate >= pct as the claim states it, with match_rate 0 for no
\* requirements
ExpectedRateAtLeast(pct) ==
    IF TotalKeywords = 0 THEN 0 >= pct ELSE 100 * TotalMatched >= pct * TotalKeywords

\* C24: ATS is STRONG at a match rate >= 80, PASS at >= 60, else RISK, and
\* visibility is HIGH at >= 75, MEDIUM at >= 50, else LOW, on the same match
\* rate; so STRONG implies HIGH, PASS implies HIGH or MEDIUM, LOW implies
\* RISK, and an empty requirement list gives RISK and LOW
C24_AtsAndVisibilityAgree ==
    pc = "evaluated" =>
        /\ evaluation.ats_status =
               (IF ExpectedRateAtLeast(80) THEN "STRONG"
                ELSE IF ExpectedRateAtLeast(60) THEN "PASS" ELSE "RISK")
        /\ evaluation.search_visibility =
               (IF ExpectedRateAtLeast(75) THEN "HIGH"
                ELSE IF ExpectedRateAtLeast(50) THEN "MEDIUM" ELSE "LOW")
        /\ evaluation.ats_status = "STRONG" => evaluation.search_visibility = "HIGH"
        /\ evaluation.ats_status = "PASS" => evaluation.search_visibility \in {"HIGH", "MEDIUM"}
        /\ evaluation.search_visibility = "LOW" => evaluation.ats_status = "RISK"
        /\ requirements = <<>> =>
               evaluation.ats_status = "RISK" /\ evaluation.search_visibility = "LOW"

\* a match rate of at least 75 and below 80: PASS with HIGH visibility
C24_Witness ==
    /\ pc = "evaluated"
    /\ TotalKeywords > 0
    /\ evaluation.ats_status = "PASS"
    /\ evaluation.search_visibility = "HIGH"

\* a match rate of at least 50 and below 60: RISK with MEDIUM visibility
C24_WitnessRisk ==
    /\ pc = "evaluated"
    /\ evaluation.ats_status = "RISK"
    /\ evaluation.search_visibility = "MEDIUM"

-----------------------------------------------------------------------------
(* The dimension scores *)

C25_WitnessPresence ==
    /\ pc = "scored"
    /\ scoring_result.weak_matches # <<>>
    /\ scoring_result.dimensions.keyword_presence.score = 100
    /\ scoring_result.dimensions.job_alignment.details.tier1_alignment < 100

-----------------------------------------------------------------------------
(* An absent resume text *)

\* the contextual bonus as the levels of the configuration give it for the
\* years estimated from the ratio (four times the ratio)
ExpectedBonus ==
    LET ratio == ExperienceRatio(required_years, candidate_years)
    IN  seniority_levels[_detect_seniority_level(ratio)].contextual_bonus

\* C26: without a resume text generate_evaluation reports 4 readability stars
\* and neither the 'Quantified achievements' nor the 'Strong action verbs'
\* strength, the resume_quality dimension is min(100, 70 + seniority bonus),
\* and generate_optimization_plan adds no quantification item; no step
\* raises because the text is absent
C26_AbsentResumeDefaults ==
    resume_text = NoResume =>
        /\ pc = "scored" =>
               /\ scoring_result.dimensions.resume_quality.score = Min(100, 70 + ExpectedBonus)
               /\ scoring_result.dimensions.resume_quality.details.quality = <<>>
               /\ exception = None
        /\ pc = "planned" =>
               /\ CountCategory(optimization_plan, "quantification") = 0
               /\ exception = None
        /\ pc = "evaluated" =>
               /\ evaluation.human_readability_stars = 4
               /\ "Quantified achievements included"
                      \notin SeqToSet(evaluation.alignment_strengths)
               /\ "Strong action verbs present" \notin SeqToSet(evaluation.alignment_strengths)
               /\ exception = None

\* an evaluation without a resume text that still reports strengths
C26_Witness ==
    /\ pc = "evaluated"
    /\ resume_text = NoResume
    /\ evaluation.human_readability_stars = 4
    /\ Len(evaluation.alignment_strengths) = 2
    /\ scoring_result.dimensions.resume_quality.score = 85
    /\ CountCategory(optimization_plan, "quantification") = 0

-----------------------------------------------------------------------------
(* Verdict, hiring readiness and ATS details *)

\* C27: when the evaluation produced from the result of calculate_score has
\* ready_to_submit = true, its hiring readiness is not LOW
C27_VerdictAgreesWithReadiness ==
    pc = "evaluated" =>
        (evaluation.ready_to_submit => evaluation.hiring_readiness # "LOW")

\* C28: whenever ats_details contains 'All critical keywords present' or
\* 'No disqualifying gaps detected', missing_critical is empty
C28_AtsDetailsTruthful ==
    pc = "evaluated" =>
        ((\/ "All critical keywords present" \in SeqToSet(evaluation.ats_details)
          \/ "No disqualifying gaps detected" \in SeqToSet(evaluation.ats_details))
            => scoring_result.missing_critical = <<>>)

-----------------------------------------------------------------------------
(* The seniority-calibration bonus *)

\* the dimensions calculate_score returns for a candidate with the given
\* years, all else as in the current call
DimensionsWithYears(years) ==
    _calculate_dimensions(TierScores(requirements), ExperienceRatio(required_years, years),
                          resume_text)

\* C29: for a fixed required_years >= 1 the bonus is non-decreasing in the
\* candidate's years, so resume_quality and job_alignment never drop because
\* experience grew
C29_BonusMonotone ==
    (pc = "scored" /\ required_years >= 1) =>
        \A fewer \in 0..candidate_years :
            LET before == DimensionsWithYears(fewer)
                after == scoring_result.dimensions
            IN  /\ before.resume_quality.details.seniority_bonus_applied
                      <= after.resume_quality.details.seniority_bonus_applied
                /\ before.resume_quality.score <= after.resume_quality.score
                /\ before.job_alignment.score <= after.job_alignment.score

-----------------------------------------------------------------------------
(* The bound and the safety of the cache insertion *)

\* C30: under any interleaving of _cache_extraction and clear_cache calls the
\* cache holds at most one entry more than the threshold (101 in the
\* program), no _cache_extraction call raises, and the key a call inserted
\* is in the cache when the call returns
C30_CacheBoundedAndSafe ==
    /\ Len(_extraction_cache) <= CacheThreshold + 1
    /\ \A c \in DOMAIN calls : calls[c].at # "KeyError"

====
